---- MODULE Spec2Model ----
(***************************************************************************)
(* A model of the fire-and-forget worker pool of cppservergit/asynctask:   *)
(* util::ThreadPool (queue, mutex, condition variable, stop source and     *)
(* jthread workers), util::fire_and_forget (availability check, logging    *)
(* wrapper, enqueue) and the ThreadPoolManager that builds the process-wide *)
(* pool before main() and resets it after main() returns.                  *)
(*                                                                         *)
(* Threads: the manager (main) thread, the pool's workers and a set of     *)
(* caller threads that call fire_and_forget (each keeps the pool pointer it *)
(* read in a local, as fire_n_go_impl.inl does).  Every step is one atomic  *)
(* access to the shared state: a stop-token read, a mutex acquisition, a   *)
(* section run under the mutex, a condition-variable operation.            *)
(*                                                                         *)
(* Objects whose lifetime has ended are tracked in `destroyed`.  A thread  *)
(* that uses such an object has undefined behaviour: the process either    *)
(* crashes or carries on with the stale storage, which still holds the     *)
(* object's last value.                                                    *)
(***************************************************************************)
EXTENDS Integers, Sequences, FiniteSets, TLC

\* Largest value std::thread::hardware_concurrency() reports (0 = unknown).
MaxHw == 1
\* Number of caller threads that call fire_and_forget.
NumSubmitters == 2
\* Number of fire_and_forget calls made in a run, by all caller threads together.
MaxCalls == 2

Submitters == 1..NumSubmitters
Tasks == Submitters \X (1..MaxCalls)
Free == <<"free", 0>>
WorkerId(w) == <<"worker", w>>
SubmitterId(s) == <<"submitter", s>>
Outcomes == {"ok", "std_exception", "unknown_exception"}

VARIABLES
    mgr,                \* position of the manager (main) thread
    hw,                 \* value hardware_concurrency() returned
    global_thread_pool, \* the process-wide unique_ptr: TRUE = non-null
    m_workers,          \* worker w |-> its position in worker_loop
    wtask,              \* worker w |-> the task it moved out of the queue
    m_tasks,            \* the queue, head first
    m_queue_mutex,      \* Free, or the thread that holds the mutex
    m_condition,        \* the workers blocked inside m_condition.wait
    m_stop_source,      \* TRUE once request_stop() was called
    destroyed,          \* data members of the pool whose destructor has run
    spc,                \* caller thread s |-> its position in fire_and_forget
    calls,              \* caller thread s |-> number of calls it has made
    inside,             \* caller s |-> the worker whose task makes the call (0: none)
    tasklog,            \* task |-> the records its wrapper has logged
    ran,                \* task |-> number of times its callable was invoked
    dropped,            \* tasks whose call found no pool
    unavailable_errors, \* number of "thread pool is not available" records
    pushed,             \* history: the tasks in insertion order
    popped,             \* history: the tasks in dequeue order
    queue_at_stop,      \* history: the queue when stop was requested
    running_at_stop,    \* history: the tasks inside task() when stop was requested
    blocked_at_stop,    \* history: the workers blocked in wait when stop was requested
    outcome,            \* history: task |-> how its callable ended ("none" before)
    dequeues_after_stop, \* history: worker |-> dequeues it made after the stop request
    crashed             \* the process was terminated by undefined behaviour

vars == <<mgr, hw, global_thread_pool, m_workers, wtask, m_tasks, m_queue_mutex,
          m_condition, m_stop_source, destroyed, spc, calls, inside, tasklog, ran,
          dropped, unavailable_errors, pushed, popped, queue_at_stop,
          running_at_stop, blocked_at_stop, outcome, dequeues_after_stop,
          crashed>>

poolVars == <<m_workers, wtask, m_tasks, m_queue_mutex, m_condition>>
histVars == <<tasklog, ran, dropped, unavailable_errors, pushed, popped,
              outcome, dequeues_after_stop>>
callerVars == <<spc, calls, inside>>
mgrVars == <<mgr, hw, global_thread_pool, m_stop_source, destroyed, queue_at_stop,
            running_at_stop, blocked_at_stop>>

----------------------------------------------------------------------------
\* Pure pieces of the code.

\* A manager that passes the detected value on as it is.
FloorThreads_NoFloor(n) == n

\* ThreadPoolManager(): if (num_threads == 0) num_threads = 2;
FloorThreads(n) == IF n = 0 THEN 2 ELSE n

\* An emplace whose write is lost when the queue already holds a task.
emplace_Lost(q, t) == IF q = <<>> THEN <<t>> ELSE q

\* An emplace at the head of the queue.
emplace_Front(q, t) == <<t>> \o q

\* m_tasks.emplace(task)
emplace(q, t) == Append(q, t)

\* A queue with room for one task.
HasRoom_Bounded(q) == q = <<>>

\* std::queue over std::deque has no capacity limit: emplace never waits.
HasRoom(q) == TRUE

\* A front that reads the newest element.
front_Back(q) == q[Len(q)]

\* m_tasks.front()
front(q) == Head(q)

\* A pop that leaves the head in place.
pop_Keep(q) == q

\* m_tasks.pop()
pop(q) == Tail(q)

\* A lock that is granted while another thread owns the mutex.
CanLock_Always(m) == TRUE

\* std::mutex::lock returns only when no thread owns the mutex.
CanLock(m) == m = Free

\* A scope end that leaves the mutex with its owner.
unlock_Held(owner) == owner

\* A worker whose lock lives until the end of the loop body, across task().
unlock_AfterTask(owner) == IF owner[1] = "worker" THEN owner ELSE Free

\* The end of the scope of the scoped_lock / unique_lock held by `owner`.
unlock(owner) == Free

\* A request_stop that leaves the stop state as it is.
request_stop_Ignored(stop) == stop

\* m_stop_source.request_stop()
request_stop(stop) == TRUE

\* A loop whose body runs at most once.
LoopCondition_Never(stop) == FALSE

\* A notify_one that wakes nobody.
notify_one_Dropped(waiters) == {waiters}

\* m_condition.notify_one(): the possible sets of blocked threads afterwards;
\* one blocked thread is woken if there is any.
notify_one(waiters) ==
    IF waiters = {} THEN {waiters} ELSE {waiters \ {w} : w \in waiters}

\* A loop that goes on after the stop request, until the return inside it.
LoopCondition_Always(stop) == TRUE

\* while (!stoken.stop_requested())
LoopCondition(stop) == ~stop

\* A wait predicate that forgets the queue.
WaitPredicate_StopOnly(stop, q) == stop

\* the wait predicate: stoken.stop_requested() || !m_tasks.empty()
WaitPredicate(stop, q) == stop \/ q # <<>>

\* An exit test that forgets the queue.
ExitCondition_StopOnly(stop, q) == stop

\* if (stoken.stop_requested() && m_tasks.empty()) return;
ExitCondition(stop, q) == stop /\ q = <<>>

\* A wrapper that logs "finished" after the try block instead of inside it.
TerminalRecord_FinishedAlways(o) == "finished"

\* The terminal record the wrapper logs for an outcome of the callable.
TerminalRecord(o) ==
    CASE o = "ok" -> "finished"
      [] o = "std_exception" -> "exception"
      [] o = "unknown_exception" -> "unknown exception"

\* A wrapper without the catch-all handler.
Contained_NoCatchAll(o) == o \in {"ok", "std_exception"}

\* Whether the wrapper's try/catch keeps the outcome from leaving the wrapper.
Contained(o) == o \in {"ok", "std_exception", "unknown_exception"}

\* A dispatch without the availability check.
Available_Unchecked(ptr) == TRUE

\* if (!pool_instance) { log error; return; }
Available(ptr) == ptr

\* Data members of ThreadPool in declaration order; destruction is the reverse.
DeclarationOrder ==
    <<"m_workers", "m_tasks", "m_queue_mutex", "m_condition", "m_stop_source">>
DestructionOrder ==
    [i \in 1..Len(DeclarationOrder) |->
        DeclarationOrder[Len(DeclarationOrder) + 1 - i]]

Workers == DOMAIN m_workers
Sum(f) == LET RECURSIVE S(_)
              S(D) == IF D = {} THEN 0
                      ELSE LET x == CHOOSE y \in D : TRUE IN f[x] + S(D \ {x})
          IN S(DOMAIN f)
InSeq(x, q) == \E i \in 1..Len(q) : q[i] = x

\* A use of the pool's data members `ms`: undefined when one is destroyed.
Use(ms) ==
    IF ms \cap destroyed # {}
    THEN crashed' \in BOOLEAN
    ELSE UNCHANGED crashed

\* Every worker the pool can have under the bounds.
MaxWorkers ==
    CHOOSE n \in {FloorThreads(h) : h \in 0..MaxHw} :
        \A h \in 0..MaxHw : FloorThreads(h) <= n
WorkerIds == 1..MaxWorkers

----------------------------------------------------------------------------
Init ==
    /\ mgr = "static_init"
    /\ hw = 0
    /\ global_thread_pool = FALSE
    /\ m_workers = <<>>
    /\ wtask = <<>>
    /\ m_tasks = <<>>
    /\ m_queue_mutex = Free
    /\ m_condition = {}
    /\ m_stop_source = FALSE
    /\ destroyed = {}
    /\ spc = [s \in Submitters |-> "idle"]
    /\ calls = [s \in Submitters |-> 0]
    /\ inside = [s \in Submitters |-> 0]
    /\ tasklog = [t \in Tasks |-> <<>>]
    /\ ran = [t \in Tasks |-> 0]
    /\ dropped = {}
    /\ unavailable_errors = 0
    /\ pushed = <<>>
    /\ popped = <<>>
    /\ queue_at_stop = <<>>
    /\ running_at_stop = {}
    /\ blocked_at_stop = {}
    /\ outcome = [t \in Tasks |-> "none"]
    /\ dequeues_after_stop = [w \in WorkerIds |-> 0]
    /\ crashed = FALSE

----------------------------------------------------------------------------
\* The manager thread.

\* ThreadPoolManager(): detect the parallelism, floor it, build the pool.
\* ThreadPool(num_threads) calls start(), which creates the jthreads; each one
\* begins worker_loop with a token of m_stop_source.
ManagerCtor ==
    /\ ~crashed
    /\ mgr = "static_init"
    /\ \E h \in 0..MaxHw :
        /\ hw' = h
        /\ m_workers' = [w \in 1..FloorThreads(h) |-> "loop"]
        /\ wtask' = [w \in 1..FloorThreads(h) |-> <<>>]
    /\ global_thread_pool' = TRUE
    /\ mgr' = "running"
    /\ UNCHANGED <<m_tasks, m_queue_mutex, m_condition, m_stop_source, destroyed,
                   queue_at_stop, running_at_stop, blocked_at_stop, callerVars, histVars, crashed>>

\* ~ThreadPoolManager(): if (get_pool_ptr()) get_pool_ptr().reset();
\* unique_ptr::reset stores null first and then deletes the pool.
ManagerDtor ==
    /\ ~crashed
    /\ mgr = "running"
    /\ global_thread_pool
    /\ global_thread_pool' = FALSE
    /\ mgr' = "dtor_body"
    /\ UNCHANGED <<hw, m_stop_source, destroyed, queue_at_stop, running_at_stop, blocked_at_stop,
                   poolVars,
                   callerVars, histVars, crashed>>

\* ~ThreadPool(): m_stop_source.request_stop(); the mutex is not taken.
RequestStop ==
    /\ ~crashed
    /\ mgr = "dtor_body"
    /\ m_stop_source' = request_stop(m_stop_source)
    /\ queue_at_stop' = m_tasks
    /\ running_at_stop' = {wtask[w] : w \in {x \in Workers : m_workers[x] = "task"}}
    /\ blocked_at_stop' = m_condition
    /\ mgr' = "stop_requested"
    /\ UNCHANGED <<hw, global_thread_pool, destroyed, poolVars, callerVars,
                   histVars, crashed>>

\* ~ThreadPool(): m_condition.notify_all(); the mutex is not taken.
NotifyAll ==
    /\ ~crashed
    /\ mgr = "stop_requested"
    /\ m_condition' = {}
    /\ mgr' = "members"
    /\ UNCHANGED <<hw, global_thread_pool, m_stop_source, destroyed, queue_at_stop,
                   running_at_stop, blocked_at_stop,
                   m_workers, wtask, m_tasks, m_queue_mutex, callerVars, histVars, crashed>>

\* After the destructor's body the data members are destroyed in reverse
\* declaration order.  Destroying m_workers joins every jthread; when it
\* returns the pool's storage is released and reset() returns.
NextMember == DestructionOrder[Cardinality(destroyed) + 1]

\* Destroying the condition variable while a thread is blocked on it, or the
\* mutex while a thread owns it, is undefined.
DestroyedInUse(m) ==
    \/ m = "m_condition" /\ m_condition # {}
    \/ m = "m_queue_mutex" /\ m_queue_mutex # Free

DestroyMember ==
    /\ ~crashed
    /\ mgr = "members"
    /\ NextMember # "m_workers"
    /\ destroyed' = destroyed \cup {NextMember}
    /\ IF DestroyedInUse(NextMember)
       THEN crashed' \in BOOLEAN
       ELSE UNCHANGED crashed
    /\ UNCHANGED <<mgr, hw, global_thread_pool, m_stop_source, queue_at_stop,
                   running_at_stop, blocked_at_stop,
                   poolVars, callerVars, histVars>>

\* A join that returns while the thread is still running.
Joined_NoWait(pc) == TRUE

\* std::jthread::join returns once the thread's function has returned.
Joined(pc) == pc = "done"

\* Each jthread's destructor requests stop on the jthread's own stop source,
\* which no worker reads, and joins.
JoinWorkers ==
    /\ ~crashed
    /\ mgr = "members"
    /\ NextMember = "m_workers"
    /\ \A w \in Workers : Joined(m_workers[w])
    /\ destroyed' = destroyed \cup {"m_workers"}
    /\ mgr' = "shut_down"
    /\ UNCHANGED <<hw, global_thread_pool, m_stop_source, queue_at_stop,
                   running_at_stop, blocked_at_stop,
                   poolVars, callerVars, histVars, crashed>>

----------------------------------------------------------------------------
\* A caller thread in fire_and_forget.

CurrentTask(s) == <<s, calls[s]>>

\* The data members of the pool that the next step of caller s uses.
CallerUses(s) ==
    CASE spc[s] = "enqueue" -> {"m_queue_mutex"}
      [] spc[s] = "locked" -> {"m_tasks", "m_queue_mutex"}
      [] spc[s] = "notify" -> {"m_condition"}
      [] OTHER -> {}

\* fire_and_forget up to its call of enqueue, made by the thread `host`
\* (0: a thread of its own; w: worker w, from inside the task it executes).
\* The availability check.  Without a pool: one error record, return.
\* With a pool: build the wrapper and go on to enqueue.
Dispatch(s, host) ==
    /\ ~crashed
    /\ spc[s] = "idle"
    /\ Sum(calls) < MaxCalls
    /\ calls' = [calls EXCEPT ![s] = @ + 1]
    /\ IF Available(global_thread_pool)
       THEN /\ spc' = [spc EXCEPT ![s] = "enqueue"]
            /\ inside' = [inside EXCEPT ![s] = host]
            /\ UNCHANGED <<dropped, unavailable_errors>>
       ELSE /\ dropped' = dropped \cup {<<s, calls[s] + 1>>}
            /\ unavailable_errors' = unavailable_errors + 1
            /\ UNCHANGED <<spc, inside>>
    /\ UNCHANGED <<mgrVars, poolVars, tasklog, ran, pushed, popped, outcome,
                   dequeues_after_stop, crashed>>

\* A call of fire_and_forget by a thread that is not a worker.
Call(s) == Dispatch(s, 0)

\* A call of fire_and_forget by the callable that worker w is executing; the
\* callable makes one call at a time and goes on when the call has returned.
NestedCall(s, w) ==
    /\ m_workers[w] = "task"
    /\ \A x \in Submitters : inside[x] # w
    /\ Dispatch(s, w)

\* enqueue: std::scoped_lock lock(m_queue_mutex);
EnqueueLock(s) ==
    /\ ~crashed
    /\ spc[s] = "enqueue"
    /\ CanLock(m_queue_mutex)
    /\ m_queue_mutex' = SubmitterId(s)
    /\ spc' = [spc EXCEPT ![s] = "locked"]
    /\ Use(CallerUses(s))
    /\ UNCHANGED <<mgrVars, m_workers, wtask, m_tasks, m_condition, calls, inside,
                   histVars>>

\* enqueue: m_tasks.emplace(task); and the end of the lock's scope.
EnqueueEmplace(s) ==
    /\ ~crashed
    /\ spc[s] = "locked"
    /\ HasRoom(m_tasks)
    /\ m_tasks' = emplace(m_tasks, CurrentTask(s))
    /\ pushed' = Append(pushed, CurrentTask(s))
    /\ m_queue_mutex' = unlock(SubmitterId(s))
    /\ spc' = [spc EXCEPT ![s] = "notify"]
    /\ Use(CallerUses(s))
    /\ UNCHANGED <<mgrVars, m_workers, wtask, m_condition, calls, inside, tasklog, ran,
                   dropped, unavailable_errors, popped, outcome,
                   dequeues_after_stop>>

\* enqueue: m_condition.notify_one(); wakes one blocked worker, if any.
EnqueueNotify(s) ==
    /\ ~crashed
    /\ spc[s] = "notify"
    /\ m_condition' \in notify_one(m_condition)
    /\ spc' = [spc EXCEPT ![s] = "idle"]
    /\ inside' = [inside EXCEPT ![s] = 0]
    /\ Use(CallerUses(s))
    /\ UNCHANGED <<mgrVars, m_workers, wtask, m_tasks, m_queue_mutex, calls, histVars>>

----------------------------------------------------------------------------
\* A worker in worker_loop.

\* The data members of the pool that the next step of worker w uses.  Under
\* the mutex the queue is always read: by the wait predicate when the token
\* does not decide it, by the exit test when it does.
WorkerUses(w) ==
    CASE m_workers[w] \in {"lock", "waiting"} -> {"m_queue_mutex"}
      [] m_workers[w] = "wait" -> {"m_condition", "m_queue_mutex"}
      [] m_workers[w] = "locked" ->
            IF WaitPredicate(m_stop_source, m_tasks)
            THEN {"m_tasks", "m_queue_mutex"}
            ELSE {"m_tasks"}
      [] OTHER -> {}

\* while (!stoken.stop_requested()); leaving the loop ends the thread.
LoopCheck(w) ==
    /\ ~crashed
    /\ m_workers[w] = "loop"
    /\ m_workers' = [m_workers EXCEPT ![w] =
                        IF LoopCondition(m_stop_source) THEN "lock" ELSE "done"]
    /\ UNCHANGED <<mgrVars, wtask, m_tasks, m_queue_mutex, m_condition,
                   callerVars, histVars, crashed>>

\* std::unique_lock lock(m_queue_mutex); and, after a wake-up, the
\* re-acquisition of the mutex inside wait.
Lock(w) ==
    /\ ~crashed
    /\ \/ m_workers[w] = "lock"
       \/ m_workers[w] = "waiting" /\ w \notin m_condition
    /\ CanLock(m_queue_mutex)
    /\ m_queue_mutex' = WorkerId(w)
    /\ m_workers' = [m_workers EXCEPT ![w] = "locked"]
    /\ Use(WorkerUses(w))
    /\ UNCHANGED <<mgrVars, wtask, m_tasks, m_condition, callerVars, histVars>>

\* Under the mutex: the wait predicate is false, the worker is about to block.
PredicateFalse(w) ==
    /\ ~crashed
    /\ m_workers[w] = "locked"
    /\ ~WaitPredicate(m_stop_source, m_tasks)
    /\ m_workers' = [m_workers EXCEPT ![w] = "wait"]
    /\ Use(WorkerUses(w))
    /\ UNCHANGED <<mgrVars, wtask, m_tasks, m_queue_mutex, m_condition,
                   callerVars, histVars>>

\* m_condition.wait(lock): releases the mutex and blocks, atomically.
Wait(w) ==
    /\ ~crashed
    /\ m_workers[w] = "wait"
    /\ m_queue_mutex' = Free
    /\ m_condition' = m_condition \cup {w}
    /\ m_workers' = [m_workers EXCEPT ![w] = "waiting"]
    /\ Use(WorkerUses(w))
    /\ UNCHANGED <<mgrVars, wtask, m_tasks, callerVars, histVars>>

\* A spurious wake-up, which the standard allows and never promises.
SpuriousWake(w) ==
    /\ ~crashed
    /\ m_workers[w] = "waiting"
    /\ w \in m_condition
    /\ m_condition' = m_condition \ {w}
    /\ UNCHANGED <<mgrVars, m_workers, wtask, m_tasks, m_queue_mutex,
                   callerVars, histVars, crashed>>

\* Under the mutex: the predicate holds and stop was requested with an empty
\* queue: return from worker_loop (the lock's destructor unlocks).
Exit(w) ==
    /\ ~crashed
    /\ m_workers[w] = "locked"
    /\ WaitPredicate(m_stop_source, m_tasks)
    /\ ExitCondition(m_stop_source, m_tasks)
    /\ m_queue_mutex' = unlock(WorkerId(w))
    /\ m_workers' = [m_workers EXCEPT ![w] = "done"]
    /\ Use(WorkerUses(w))
    /\ UNCHANGED <<mgrVars, wtask, m_tasks, m_condition, callerVars, histVars>>

\* Under the mutex: the predicate holds: task = std::move(m_tasks.front());
\* m_tasks.pop(); the end of the lock's scope; then task(): the wrapper logs
\* "Starting task" and invokes the callable.
Dequeue(w) ==
    /\ ~crashed
    /\ m_workers[w] = "locked"
    /\ WaitPredicate(m_stop_source, m_tasks)
    /\ ~ExitCondition(m_stop_source, m_tasks)
    /\ wtask' = [wtask EXCEPT ![w] = front(m_tasks)]
    /\ m_tasks' = pop(m_tasks)
    /\ popped' = Append(popped, front(m_tasks))
    /\ m_queue_mutex' = unlock(WorkerId(w))
    /\ tasklog' = [tasklog EXCEPT ![front(m_tasks)] = Append(@, "starting")]
    /\ ran' = [ran EXCEPT ![front(m_tasks)] = @ + 1]
    /\ m_workers' = [m_workers EXCEPT ![w] = "task"]
    /\ dequeues_after_stop' =
            IF m_stop_source
            THEN [dequeues_after_stop EXCEPT ![w] = @ + 1]
            ELSE dequeues_after_stop
    /\ Use(WorkerUses(w))
    /\ UNCHANGED <<mgrVars, m_condition, callerVars, dropped,
                   unavailable_errors, pushed, outcome>>

\* The callable ends, normally or with an exception; the wrapper logs the
\* terminal record and returns to the loop.  An outcome that the wrapper does
\* not contain leaves the jthread's function: std::terminate.
Finish(w) ==
    /\ ~crashed
    /\ m_workers[w] = "task"
    /\ \A s \in Submitters : inside[s] # w
    /\ \E o \in Outcomes :
        IF Contained(o)
        THEN /\ tasklog' = [tasklog EXCEPT ![wtask[w]] = Append(@, TerminalRecord(o))]
             /\ outcome' = [outcome EXCEPT ![wtask[w]] = o]
             /\ m_workers' = [m_workers EXCEPT ![w] = "loop"]
             /\ wtask' = [wtask EXCEPT ![w] = <<>>]
             /\ UNCHANGED crashed
        ELSE /\ crashed' = TRUE
             /\ UNCHANGED <<tasklog, outcome, m_workers, wtask>>
    /\ UNCHANGED <<mgrVars, m_tasks, m_queue_mutex, m_condition, callerVars,
                   ran, dropped, unavailable_errors, pushed, popped,
                   dequeues_after_stop>>

----------------------------------------------------------------------------
ManagerStep ==
    \/ ManagerCtor
    \/ ManagerDtor
    \/ RequestStop
    \/ NotifyAll
    \/ DestroyMember
    \/ JoinWorkers

CallerStep(s) ==
    \/ Call(s)
    \/ EnqueueLock(s)
    \/ EnqueueEmplace(s)
    \/ EnqueueNotify(s)

\* The steps a running worker takes by itself.
WorkerStep(w) ==
    \/ LoopCheck(w)
    \/ Lock(w)
    \/ PredicateFalse(w)
    \/ Wait(w)
    \/ Exit(w)
    \/ Dequeue(w)
    \/ Finish(w)

Next ==
    \/ ManagerStep
    \/ \E s \in Submitters : CallerStep(s)
    \/ \E w \in Workers : WorkerStep(w)
    \/ \E w \in Workers : SpuriousWake(w)

Spec == Init /\ [][Next]_vars

\* Scheduling is fair: a thread that can take a step takes one.  A caller's
\* decision to call fire_and_forget and a spurious wake-up are never forced.
CallerProgress(s) == EnqueueLock(s) \/ EnqueueEmplace(s) \/ EnqueueNotify(s)

Fairness ==
    /\ WF_vars(ManagerStep)
    /\ \A s \in Submitters : WF_vars(CallerProgress(s))
    /\ \A w \in WorkerIds : WF_vars(w \in Workers /\ WorkerStep(w))

FairSpec == Init /\ [][Next]_vars /\ Fairness

\* The executions in which the pool is never torn down, so that stop is never
\* requested: the manager's destructor does not run and no worker can leave.
RunningWorkerStep(w) ==
    \/ LoopCheck(w)
    \/ Lock(w)
    \/ PredicateFalse(w)
    \/ Wait(w)
    \/ Dequeue(w)
    \/ Finish(w)

RunNext ==
    \/ ManagerCtor
    \/ \E s \in Submitters : CallerStep(s)
    \/ \E w \in Workers : RunningWorkerStep(w)
    \/ \E w \in Workers : SpuriousWake(w)

RunFairness ==
    /\ \A s \in Submitters : WF_vars(CallerProgress(s))
    /\ \A w \in WorkerIds : WF_vars(w \in Workers /\ RunningWorkerStep(w))

RunSpec == Init /\ [][RunNext]_vars /\ RunFairness

\* The executions of a running pool whose callables may themselves call
\* fire_and_forget and need not return.  A thread that waits for the mutex
\* gets it if the mutex is free again and again; a thread inside a locked
\* section goes on; nothing else is promised: no task has to end, no worker
\* has to come back for the next task.
LockedSectionStep(w) == PredicateFalse(w) \/ Wait(w) \/ Dequeue(w)

SubmitNext ==
    \/ ManagerCtor
    \/ \E s \in Submitters : CallerStep(s)
    \/ \E s \in Submitters : \E w \in Workers : NestedCall(s, w)
    \/ \E w \in Workers : RunningWorkerStep(w)
    \/ \E w \in Workers : SpuriousWake(w)

SubmitFairness ==
    /\ \A s \in Submitters :
        /\ SF_vars(EnqueueLock(s))
        /\ WF_vars(EnqueueEmplace(s) \/ EnqueueNotify(s))
    /\ \A w \in WorkerIds : WF_vars(w \in Workers /\ LockedSectionStep(w))

SubmitSpec == Init /\ [][SubmitNext]_vars /\ SubmitFairness

TypeOK ==
    /\ mgr \in {"static_init", "running", "dtor_body", "stop_requested", "members", "shut_down"}
    /\ m_queue_mutex \in {Free} \cup {WorkerId(w) : w \in Workers}
                            \cup {SubmitterId(s) : s \in Submitters}
    /\ m_condition \subseteq Workers
    /\ Workers \subseteq WorkerIds
    /\ \A t \in Tasks : ran[t] \in 0..MaxCalls

----------------------------------------------------------------------------
\* Vocabulary of the properties.

Count(x, q) == Cardinality({i \in 1..Len(q) : q[i] = x})
Enqueued(t) == InSeq(t, pushed)
Executed(t) == Len(tasklog[t]) = 2
Failed(t) == Executed(t) /\ tasklog[t][2] # "finished"
Executing(w) == m_workers[w] = "task"

\* The records the wrapper's two catch handlers log.
ErrorRecords == {"exception", "unknown exception"}

\* Enqueued tasks that have not been executed yet.
Backlog == {t \in Tasks : Enqueued(t) /\ ~Executed(t)}

\* The tasks whose enqueue has completed, read off the callers' positions.
Submitted ==
    {t \in Tasks \ dropped :
        \/ t[2] < calls[t[1]]
        \/ t[2] = calls[t[1]] /\ spc[t[1]] \in {"notify", "idle"}}
InQueue == {t \in Tasks : InSeq(t, m_tasks)}
BeingExecuted == {t \in Tasks : \E w \in Workers : Executing(w) /\ wtask[w] = t}
AlreadyExecuted == {t \in Tasks : Executed(t)}

\* The threads inside a section that reads or changes the queue: a caller
\* between its lock and the end of its scope, a worker between its lock (or
\* its wake-up inside wait) and its unlock (or its block inside wait).
InSection ==
    {SubmitterId(s) : s \in {x \in Submitters : spc[x] = "locked"}}
        \cup {WorkerId(w) : w \in {x \in Workers : m_workers[x] \in {"locked", "wait"}}}

\* Worker w is blocked inside m_condition.wait and has not been woken.
Blocked(w) == m_workers[w] = "waiting" /\ w \in m_condition

\* The step in which the task of worker w ends; the workers still running.
TaskEnds(w) == m_workers[w] = "task" /\ m_workers'[w] # "task"
Live == {w \in Workers : m_workers[w] # "done"}

----------------------------------------------------------------------------
\* C1: when shutdown has returned, every task that was in the queue at the
\* moment stop was requested has been executed.
C1_ShutdownDrainsQueue ==
    mgr = "shut_down" =>
        \A i \in 1..Len(queue_at_stop) : Executed(queue_at_stop[i])

\* C2: once the destructor has requested stop and issued notify_all, under
\* fair scheduling and with task bodies that return, every worker terminates
\* and the join completes (unless the process has been terminated).
C2_ShutdownTerminates ==
    (mgr = "members") ~> (mgr = "shut_down" \/ crashed)

\* C3: while stop is never requested, every task whose enqueue has completed
\* is eventually dequeued and executed, given fair scheduling and task bodies
\* that return: whenever some enqueued task has not been executed, a state
\* follows in which every task enqueued so far has been executed.  (Enqueued
\* and Executed never become false again, so this gives Enqueued(t) ~>
\* Executed(t) for each task t.)
C3_NoTaskLossWhileRunning == (Backlog # {}) ~> (Backlog = {})

\* C3's case: several tasks were enqueued on a running pool and all ran.
C3_Witness ==
    /\ ~m_stop_source
    /\ Len(pushed) = MaxCalls
    /\ \A t \in Tasks : Enqueued(t) => Executed(t)

\* C4: every task is dequeued at most once, is invoked at most once, is held
\* by at most one worker, and once dequeued (whether it then fails or not) is
\* never in the queue again.
C4_NoDuplicationNoRetry ==
    \A t \in Tasks :
        /\ Count(t, popped) <= 1
        /\ Count(t, m_tasks) <= 1
        /\ ran[t] <= 1
        /\ Cardinality({w \in Workers : wtask[w] = t}) <= 1
        /\ Count(t, popped) = 1 => Count(t, m_tasks) = 0

\* C4's case: a task has failed while another task was queued behind it.
C4_Witness ==
    \E t \in Tasks : Failed(t) /\ m_tasks # <<>>

\* C5: with callers submitting concurrently, every completed enqueue has
\* contributed exactly one queue entry: before stop is requested the tasks
\* whose enqueue completed are exactly the tasks in the queue, the tasks being
\* executed and the tasks executed, no task in two of these places; and when
\* nothing is in flight the number of invocations is the number of submissions.
C5_ConcurrentSubmissionConserves ==
    ~m_stop_source =>
        /\ Submitted = InQueue \cup BeingExecuted \cup AlreadyExecuted
        /\ InQueue \cap BeingExecuted = {}
        /\ InQueue \cap AlreadyExecuted = {}
        /\ BeingExecuted \cap AlreadyExecuted = {}
        /\ Len(m_tasks) = Cardinality(InQueue)
        /\ (InQueue = {} /\ BeingExecuted = {}) => Sum(ran) = Cardinality(Submitted)

\* C5's case: two callers are inside enqueue at the same time, each with its
\* task pushed and its notify_one still to come.
C5_Witness ==
    /\ ~m_stop_source
    /\ Cardinality({s \in Submitters : spc[s] = "notify"}) >= 2
    /\ Cardinality(Submitted) >= 2

\* C6: tasks leave the queue in the order in which they entered it, and an
\* enqueue appends at the tail: the insertion history is the dequeue history
\* followed by the queue.
C6_FifoStartOrder == pushed = popped \o m_tasks

\* C6's case: two tasks were queued together and both were dequeued, by
\* different workers.
C6_Witness ==
    /\ Len(popped) >= 2
    /\ \E w1, w2 \in Workers : w1 # w2 /\ Executing(w1) /\ Executing(w2)

\* C7: in a pool of one worker, a task of a caller thread is not started
\* before every task the same thread submitted earlier has finished.
C7_SingleWorkerCompletionOrder ==
    Cardinality(Workers) = 1 =>
        \A a, b \in Tasks :
            (a[1] = b[1] /\ a[2] < b[2] /\ a \notin dropped /\ ran[b] > 0)
                => Executed(a)

\* C7's case: one worker, two tasks of the same caller, both queued at once
\* and the second now started.
C7_Witness ==
    /\ Cardinality(Workers) = 1
    /\ \E a, b \in Tasks :
        /\ a[1] = b[1] /\ a[2] < b[2]
        /\ ran[b] > 0 /\ Executed(a)
        /\ pushed = <<a, b>>

\* C8: a task that fails is contained by its wrapper.  The step in which a
\* callable ends leaves the worker in the loop, the queue as it was and the
\* set of live workers as it was; the process is never terminated; and after a
\* failure every enqueued task is still executed.
C8_FailureIsolation ==
    /\ [][\A w \in Workers :
            TaskEnds(w) =>
                /\ m_workers'[w] = "loop"
                /\ m_tasks' = m_tasks
                /\ Live' = Live]_vars
    /\ [](~crashed)
    /\ ((\E t \in Tasks : Failed(t)) /\ Backlog # {}) ~> (Backlog = {})

\* C8's case: a task failed with an unknown exception and the task enqueued
\* behind it has been executed by the same pool.
C8_Witness ==
    \E f, t \in Tasks :
        /\ tasklog[f] = <<"starting", "unknown exception">>
        /\ pushed = <<f, t>>
        /\ tasklog[t] = <<"starting", "finished">>

\* C9: a call made while the pool handle is null logs one error, returns, and
\* enqueues and executes nothing: the call's step leaves the caller idle, adds
\* one error record and touches neither the queue nor the callable; and a
\* dropped task is never enqueued, never logged by a wrapper, never invoked.
C9_UnavailablePoolDrop ==
    /\ [][\A s \in Submitters :
            (calls'[s] # calls[s] /\ ~global_thread_pool) =>
                /\ spc'[s] = "idle"
                /\ dropped' = dropped \cup {<<s, calls'[s]>>}
                /\ unavailable_errors' = unavailable_errors + 1
                /\ m_tasks' = m_tasks /\ pushed' = pushed
                /\ ran' = ran /\ tasklog' = tasklog
                /\ ~crashed']_vars
    /\ [](/\ unavailable_errors = Cardinality(dropped)
          /\ \A t \in dropped :
                ~Enqueued(t) /\ ~InSeq(t, m_tasks) /\ ran[t] = 0 /\ tasklog[t] = <<>>)

\* C9's case: two calls found the handle null and were dropped, nothing was
\* ever enqueued, and the pool has been shut down.
C9_Witness ==
    /\ mgr = "shut_down"
    /\ \E a, b \in dropped : a # b /\ pushed = <<>>

\* C10: a call that races with the teardown never uses a data member of the
\* pool that has already been destroyed, and its task is invoked at most once.
C10_RacingSubmitIsSafe ==
    /\ [][\A s \in Submitters :
            spc'[s] # spc[s] => CallerUses(s) \cap destroyed = {}]_vars
    /\ [](\A t \in Tasks : ran[t] <= 1)

\* C11: the wrapper's logging protocol.  A task whose callable was invoked has
\* "starting" as its first record; a task whose callable has not ended has no
\* terminal record; a task whose callable has ended has exactly one terminal
\* record, which is "finished" exactly when the callable completed normally
\* and an error record exactly when it failed; and the step in which the
\* callable ends returns the worker to its loop without terminating anything.
C11_LifecycleLogging ==
    /\ [](\A t \in Tasks :
            /\ ran[t] > 0 => (Len(tasklog[t]) >= 1 /\ tasklog[t][1] = "starting")
            /\ ran[t] = 0 => tasklog[t] = <<>>
            /\ outcome[t] = "none" => Len(tasklog[t]) <= 1
            /\ outcome[t] # "none" =>
                /\ Len(tasklog[t]) = 2
                /\ tasklog[t][2] = "finished" <=> outcome[t] = "ok"
                /\ tasklog[t][2] \in ErrorRecords <=> outcome[t] # "ok")
    /\ [][\A w \in Workers :
            TaskEnds(w) =>
                /\ m_workers'[w] = "loop"
                /\ outcome'[wtask[w]] # "none"
                /\ crashed' = crashed]_vars

\* C11's case: one task completed normally and another one threw, and each
\* has its two records.
C11_Witness ==
    \E a, b \in Tasks :
        /\ outcome[a] = "ok" /\ tasklog[a] = <<"starting", "finished">>
        /\ outcome[b] = "std_exception" /\ tasklog[b] = <<"starting", "exception">>

\* C12: a worker that is inside task() does not own the queue mutex, and the
\* mutex is owned only by a caller between its lock and the end of its push,
\* or by a worker in its wait/pop section.
C12_LockNotHeldWhileExecuting ==
    /\ \A w \in Workers :
        /\ Executing(w) => m_queue_mutex # WorkerId(w)
        /\ m_queue_mutex = WorkerId(w) => m_workers[w] \in {"locked", "wait"}
    /\ \A s \in Submitters :
        m_queue_mutex = SubmitterId(s) => spc[s] = "locked"

\* C12's case: a worker is inside task() while another thread owns the mutex.
C12_Witness ==
    \E w \in Workers : Executing(w) /\ m_queue_mutex # Free

\* C13: at most one thread, caller or worker, is inside a section that reads
\* or changes the queue, and that thread is the owner of the mutex.
C13_QueueMutualExclusion ==
    /\ Cardinality(InSection) <= 1
    /\ \A x \in InSection : m_queue_mutex = x

\* C13's case: a caller is inside its push while another caller and a worker
\* are waiting for the mutex.
C13_Witness ==
    /\ \E s1, s2 \in Submitters : spc[s1] = "locked" /\ spc[s2] = "enqueue"
    /\ \E w \in Workers : m_workers[w] = "lock"

\* C14: shutdown does not interrupt a running task and waits for it.  A worker
\* inside task() leaves it only by the step in which the callable ends and
\* its terminal record is logged, whatever the manager does meanwhile; when
\* shutdown has returned every worker has terminated, no task is in the
\* middle of its execution and every task that was running when stop was
\* requested has run to its end; and under fair scheduling the tasks that
\* were running when stop was requested do end, unless the process is
\* terminated.
C14_ShutdownWaitsForRunningTask ==
    /\ [][\A w \in Workers :
            Executing(w) =>
                \/ m_workers'[w] = "task" /\ wtask'[w] = wtask[w]
                \/ m_workers'[w] = "loop" /\ Len(tasklog'[wtask[w]]) = 2]_vars
    /\ [](mgr = "shut_down" =>
            /\ \A w \in Workers : m_workers[w] = "done" /\ wtask[w] = <<>>
            /\ \A t \in Tasks : ran[t] > 0 => Executed(t)
            /\ \A t \in running_at_stop : Executed(t))
    /\ (running_at_stop # {})
            ~> ((\A t \in running_at_stop : Executed(t)) \/ crashed)

\* C14's case: a task was running when stop was requested, and shutdown has
\* returned.
C14_Witness ==
    /\ mgr = "shut_down"
    /\ running_at_stop # {}

\* C15: once the manager has built the process-wide pool, the pool has as many
\* workers as the detected hardware parallelism when that is positive and 2
\* when the detection returned 0, hence never zero workers.
C15_ThreadCountFloor ==
    mgr # "static_init" =>
        /\ hw > 0 => Cardinality(Workers) = hw
        /\ hw = 0 => Cardinality(Workers) = 2
        /\ Cardinality(Workers) >= 1

\* C15's case: the detection returned 0 and both workers of the pool run.
C15_Witness ==
    /\ hw = 0
    /\ Cardinality(Workers) = 2
    /\ \A w \in Workers : m_workers[w] = "task"

\* C16: the worker follows the state machine Waiting / Executing / Terminated:
\* a worker terminates only from the locked wait section, at a moment when
\* stop has been requested and the queue is empty; in particular it does not
\* terminate straight after a task, and never while the queue is non-empty.
C16_WorkerStateMachine ==
    [][\A w \in Workers :
        (m_workers[w] # "done" /\ m_workers'[w] = "done") =>
            /\ m_workers[w] = "locked"
            /\ m_stop_source
            /\ m_tasks = <<>>]_vars

\* C17: a worker that leaves its locked wait section with stop requested and
\* the queue empty terminates, and dequeues and invokes nothing; one that
\* leaves it with a non-empty queue, stop requested or not, removes the head
\* of the queue and invokes it; and a terminated worker does nothing further.
C17_WakeUpDecision ==
    [][\A w \in Workers :
        /\ (m_workers[w] = "locked" /\ m_workers'[w] # "locked") =>
            /\ (m_stop_source /\ m_tasks = <<>>) =>
                /\ m_workers'[w] = "done"
                /\ m_tasks' = m_tasks /\ popped' = popped /\ ran' = ran
            /\ m_tasks # <<>> =>
                /\ m_workers'[w] = "task"
                /\ wtask'[w] = Head(m_tasks)
                /\ m_tasks' = Tail(m_tasks)
                /\ popped' = Append(popped, Head(m_tasks))
                /\ ran'[Head(m_tasks)] = ran[Head(m_tasks)] + 1
        /\ m_workers[w] = "done" =>
            m_workers'[w] = "done" /\ wtask'[w] = <<>>]_vars

\* C17's case: one worker was blocked in wait when stop was requested, woke
\* to an empty queue and terminated; another one was blocked too, woke to a
\* task that a racing caller had pushed, and is executing it.
C17_Witness ==
    \E w1, w2 \in blocked_at_stop :
        /\ m_workers[w1] = "done"
        /\ Executing(w2)
        /\ Len(popped) = 1

\* C18: the stop signal is monotonic.  It is "running" until the pool's
\* destructor requests stop and "stop requested" from then on; it never goes
\* back; and the only step that changes it is the destructor's request_stop,
\* which is a step of no caller and of no worker.
C18_StopSignalMonotonic ==
    /\ [](~m_stop_source <=> mgr \in {"static_init", "running", "dtor_body"})
    /\ [][/\ m_stop_source => m_stop_source'
          /\ m_stop_source' # m_stop_source =>
                /\ mgr = "dtor_body" /\ mgr' = "stop_requested"
                /\ spc' = spc /\ calls' = calls
                /\ m_workers' = m_workers]_vars

\* C18's case: after the stop request the workers have run to their ends and
\* a racing caller has pushed a task, and the signal is still set.
C18_Witness ==
    /\ m_stop_source
    /\ mgr = "shut_down"
    /\ \E t \in Tasks : InSeq(t, m_tasks) /\ ~InSeq(t, queue_at_stop)

\* C19: the pool has the number of workers it was constructed with and the
\* set of workers never changes afterwards; and as long as stop has not been
\* requested every worker is alive (none has terminated and the process has
\* not been terminated), however many of the tasks have failed.
C19_FixedWorkerCardinality ==
    /\ [](mgr # "static_init" => Cardinality(Workers) = FloorThreads(hw))
    /\ [][mgr # "static_init" => DOMAIN m_workers' = DOMAIN m_workers]_vars
    /\ [](~m_stop_source =>
            /\ ~crashed
            /\ \A w \in Workers : m_workers[w] # "done")

\* C19's case: every task of the run has failed and the pool still runs with
\* both of its workers.
C19_Witness ==
    /\ ~m_stop_source
    /\ Cardinality(Workers) = 2
    /\ Cardinality({t \in Tasks : Failed(t)}) = MaxCalls

\* C20: no wake-up is lost on submit.  While stop has not been requested
\* there is no state in which the queue holds a task, every worker is blocked
\* in the condition wait and no caller has its notify_one still to come; and
\* a notify_one made while some worker is blocked wakes a blocked worker.
C20_NoLostWakeUpOnSubmit ==
    /\ []((~m_stop_source /\ m_tasks # <<>>) =>
            \/ \E w \in Workers : ~Blocked(w)
            \/ \E s \in Submitters : spc[s] = "notify")
    /\ [][\A s \in Submitters :
            (/\ spc[s] = "notify" /\ spc'[s] # "notify"
             /\ "m_condition" \notin destroyed
             /\ m_condition # {}) =>
                /\ m_condition' \subseteq m_condition
                /\ m_condition' # m_condition]_vars

\* C20's case: a submit has completed on a pool whose workers were blocked;
\* a task is queued, no notify_one is pending, one worker has been woken and
\* the other one is still blocked.
C20_Witness ==
    /\ ~m_stop_source
    /\ m_tasks # <<>>
    /\ \A s \in Submitters : spc[s] = "idle"
    /\ \E w1, w2 \in Workers :
        /\ Blocked(w1)
        /\ m_workers[w2] = "waiting" /\ w2 \notin m_condition

\* C21: a callable running on a worker may call fire_and_forget on the same
\* pool.  The worker that makes the call does not own the queue mutex, nor
\* does any other worker that is inside task(); and the call gets the mutex,
\* pushes its task and returns, even when every worker is executing a task
\* that is making such a call and no task ever ends.
C21_ReentrantSubmission ==
    /\ [](\A s \in Submitters :
            inside[s] # 0 =>
                /\ m_workers[inside[s]] = "task"
                /\ m_queue_mutex # WorkerId(inside[s])
                /\ \A w \in Workers : Executing(w) => m_queue_mutex # WorkerId(w))
    /\ \A s \in Submitters :
        (inside[s] # 0) ~> (inside[s] = 0 /\ Enqueued(CurrentTask(s)))

\* C21's case: every worker of the pool is executing a task that is inside
\* a call of fire_and_forget, and the call has taken the mutex and pushed.
C21_Witness ==
    /\ Workers # {}
    /\ \A w \in Workers :
        /\ Executing(w)
        /\ \E s \in Submitters : inside[s] = w /\ spc[s] = "notify"

\* C22: submit never blocks on the pool's load.  A caller waits for nothing
\* but the mutex: its lock step can be taken whenever the mutex is free, its
\* push and its notify_one can always be taken, whatever the length of the
\* queue and whatever the workers are doing; and every call that has passed
\* the availability check returns with its task appended, even if no task
\* ever ends.
C22_SubmitNeverBlocksOnLoad ==
    /\ [](\A s \in Submitters :
            /\ (spc[s] = "enqueue" /\ m_queue_mutex = Free) => ENABLED EnqueueLock(s)
            /\ spc[s] = "locked" => ENABLED EnqueueEmplace(s)
            /\ spc[s] = "notify" => ENABLED EnqueueNotify(s))
    /\ \A s \in Submitters :
        (spc[s] = "enqueue") ~> (spc[s] = "idle" /\ Enqueued(CurrentTask(s)))

\* C22's case: every worker is inside a task and a call made meanwhile has
\* returned, leaving its task in the queue behind another one.
C22_Witness ==
    /\ Workers # {}
    /\ \A w \in Workers : Executing(w)
    /\ \A s \in Submitters : spc[s] = "idle"
    /\ m_tasks # <<>>
    /\ Len(pushed) = MaxCalls

\* C23: during the destruction of the pool no worker uses the queue, the
\* mutex or the condition variable after that object has been destroyed:
\* every worker has terminated by the time one of them is destroyed, and no
\* step of a worker uses a destroyed member.
C23_WorkersJoinedBeforeMembersDie ==
    /\ [][\A w \in Workers :
            m_workers'[w] # m_workers[w] => WorkerUses(w) \cap destroyed = {}]_vars
    /\ [](\A m \in {"m_tasks", "m_queue_mutex", "m_condition"} :
            m \in destroyed => \A w \in Workers : m_workers[w] = "done")

\* C24: once stop has been requested each worker makes at most one further
\* dequeue before it terminates, and a worker that was inside task() when
\* stop was requested makes none; so no more task executions begin after the
\* stop request than there are workers, however many tasks remain queued.
C24_AtMostOneDequeueAfterStop ==
    /\ \A w \in Workers : dequeues_after_stop[w] <= 1
    /\ Sum(dequeues_after_stop) + Cardinality(running_at_stop) <= Cardinality(Workers)
    /\ \A w \in Workers :
        (Executing(w) /\ wtask[w] \in running_at_stop) => dequeues_after_stop[w] = 0

\* C24's case: shutdown has returned, a worker made its one dequeue after the
\* stop request and terminated, and a task is still in the queue.
C24_Witness ==
    /\ mgr = "shut_down"
    /\ \E w \in Workers : dequeues_after_stop[w] = 1
    /\ \E i \in 1..Len(queue_at_stop) : InSeq(queue_at_stop[i], m_tasks)

====
